---- MODULE Spec2Model ----
(***************************************************************************)
(* Model of valhalla/midgard/encoded.h: the 5-bit polyline codec           *)
(* (encode, Shape5Decoder, decode).                                        *)
(*                                                                         *)
(* An int is a 32-bit two's complement value, held as an integer in        *)
(* Int32Min..Int32Max; bit operations go through the set of bit positions  *)
(* that are 1.  Signed add/subtract that leaves the range wraps, which is  *)
(* what the builds of this code produce.  A byte of a buffer is held as    *)
(* its raw value 0..255; whether plain char is signed is a property of the *)
(* build (charSigned), as is what a shift by 32 or more gives (wideShift). *)
(* A coordinate (a double) is held as a whole number of CoordUnit-ths of a *)
(* degree, a precision as a power of ten dividing CoordUnit.               *)
(***************************************************************************)
EXTENDS Integers, Sequences, FiniteSets

VARIABLES
  charSigned,   \* build: plain char is a signed type
  wideShift,    \* build: "mod32" or "zero", the result of x << s for s >= 32
  \* ---- encode()
  points,       \* the container passed to encode(): <<lon, lat>> pairs
  precision,    \* encode()'s precision argument
  epc,          \* "idle" | "loop" | "done" : position in encode()
  idx,          \* number of points the for loop has consumed
  last_lon,
  last_lat,
  output,       \* the std::string being built
  \* ---- Shape5Decoder / decode()
  buf,          \* the encoded buffer
  begin,        \* the read cursor, as an offset from the buffer's start
  lat,
  lon,
  prec,         \* decode precision, as CoordUnit / (encode precision)
  c,            \* the container decode() fills: <<lon, lat>> accumulator pairs
  dpc,          \* "idle" | "loop" | "returned" | "error" | "object"
  err,          \* what() of the exception thrown, or ""
  hist,         \* observations of the calls made on the decoder
  \* ---- one sample through serialize and next
  smp

vars == <<charSigned, wideShift, points, precision, epc, idx, last_lon, last_lat,
          output, buf, begin, lat, lon, prec, c, dpc, err, hist, smp>>

encVars == <<points, precision, epc, idx, last_lon, last_lat, output>>
decVars == <<buf, begin, lat, lon, prec, c, dpc, err, hist>>
buildVars == <<charSigned, wideShift>>

----------------------------------------------------------------------------
(* 32-bit integers *)

WordBits == 32
Half31 == 2 ^ (WordBits - 2)
Int32Max == (Half31 - 1) + Half31
Int32Min == (-Int32Max) - 1
BitPos == 0 .. (WordBits - 1)

RECURSIVE SumBits(_, _)
SumBits(s, i) ==
  IF i > WordBits - 2 THEN 0
  ELSE (IF i \in s THEN 2 ^ i ELSE 0) + SumBits(s, i + 1)

\* the int whose two's complement bits are s
FromBits(s) ==
  IF (WordBits - 1) \in s THEN (SumBits(s, 0) - Half31) - Half31
  ELSE SumBits(s, 0)

\* the bit positions set in the two's complement form of n
ToBits(n) ==
  LET low == IF n < 0 THEN (n + Half31) + Half31 ELSE n
  IN {i \in 0 .. (WordBits - 2) : (low \div (2 ^ i)) % 2 = 1}
       \cup (IF n < 0 THEN {WordBits - 1} ELSE {})

\* x << s on a 32-bit word, bits shifted out are lost; s >= 32 is undefined
\* and gives what the build's shift instruction gives
ShlBits(s, n) ==
  IF n < WordBits THEN {i + n : i \in s} \cap BitPos
  ELSE IF wideShift = "mod32" THEN {i + (n % WordBits) : i \in s} \cap BitPos
  ELSE {}

\* x >> 1 on a signed int (arithmetic)
Sar1(s) ==
  {i - 1 : i \in (s \ {0})} \cup (IF (WordBits - 1) \in s THEN {WordBits - 1} ELSE {})

NotBits(s) == BitPos \ s

\* a + b on int, wrapping
AddWrap(a, b) ==
  IF a >= 0 /\ b >= 0 /\ a > Int32Max - b
    THEN ((a - Half31) - Half31) + ((b - Half31) - Half31)
  ELSE IF a < 0 /\ b < 0 /\ a < Int32Min - b
    THEN ((a + Half31) + Half31) + ((b + Half31) + Half31)
  ELSE a + b

\* a - b on int, wrapping
SubWrap(a, b) ==
  IF a >= 0 /\ b < 0 /\ a > Int32Max + b
    THEN ((a - Half31) - Half31) - ((b + Half31) + Half31)
  ELSE IF a < 0 /\ b >= 0 /\ a < Int32Min + b
    THEN ((a + Half31) + Half31) - ((b - Half31) - Half31)
  ELSE a - b

\* static_cast<char>(v): the low eight bits
ToChar(v) == v % 256

\* int32_t(*p): the value of a stored char
CharValue(b) == IF charSigned /\ b >= 128 THEN b - 256 ELSE b

----------------------------------------------------------------------------
(* encode() *)

CoordUnit == 10 ^ 7

\* static_cast<int>(round(x * precision)) for x = n / CoordUnit: the nearest
\* whole number to n / q, a half going away from zero (the product is taken as
\* the exact decimal product)
ScaleRound(n, p) ==
  LET q == CoordUnit \div p
      f == n \div q
      r == n % q
  IN IF n >= 0 THEN (IF 2 * r >= q THEN f + 1 ELSE f)
     ELSE (IF 2 * r > q THEN f + 1 ELSE f)

\* faulty variant: the bits of a negative number are not flipped
ZigZagNoFlip(number) == FromBits(ShlBits(ToBits(number), 1))

\* number = number < 0 ? ~(static_cast<unsigned int>(number) << 1) : (number << 1)
ZigZag(number) ==
  IF number < 0 THEN FromBits(NotBits(ShlBits(ToBits(number), 1)))
  ELSE FromBits(ShlBits(ToBits(number), 1))

RECURSIVE Chunks(_)
Chunks(number) ==
  IF number >= 32
    THEN <<ToChar((32 + (number % 32)) + 63)>> \o Chunks(number \div 32)
  ELSE <<ToChar(number + 63)>>

\* the bytes the serialize lambda appends for one number
serialize(number) == Chunks(ZigZag(number))

----------------------------------------------------------------------------
(* Shape5Decoder *)

\* the byte at offset pos; a std::string's c_str() holds a NUL at offset length
ByteAt(b, pos) == IF pos < Len(b) THEN b[pos + 1] ELSE 0

\* faulty variant: begin > end
emptyPastEnd(b, pos) == pos > Len(b)

\* empty(): begin == end
empty(b, pos) == pos = Len(b)

\* faulty variant: the end of the input ends the sample
RECURSIVE NextLoopNoThrow(_, _, _, _)
NextLoopNoThrow(b, pos, shift, result) ==
  IF pos = Len(b)
    THEN [ok |-> TRUE, begin |-> pos, result |-> result, hi |-> pos - 1]
  ELSE LET byte == CharValue(ByteAt(b, pos)) - 63
           res  == result \cup ShlBits(ToBits(byte % 32), shift)
       IN IF byte >= 32 THEN NextLoopNoThrow(b, pos + 1, shift + 5, res)
          ELSE [ok |-> TRUE, begin |-> pos + 1, result |-> res, hi |-> pos]

\* faulty variant: no check of empty() before the read
RECURSIVE NextLoopUnchecked(_, _, _, _)
NextLoopUnchecked(b, pos, shift, result) ==
  LET byte == CharValue(ByteAt(b, pos)) - 63
      res  == result \cup ShlBits(ToBits(byte % 32), shift)
  IN IF byte >= 32 THEN NextLoopUnchecked(b, pos + 1, shift + 5, res)
     ELSE [ok |-> TRUE, begin |-> pos + 1, result |-> res, hi |-> pos]

\* faulty variant: the loop goes on while (byte & 0x20)
RECURSIVE NextLoopBitTest(_, _, _, _)
NextLoopBitTest(b, pos, shift, result) ==
  IF pos = Len(b)
    THEN [ok |-> FALSE, begin |-> pos, result |-> result, hi |-> pos - 1]
  ELSE LET byte == CharValue(ByteAt(b, pos)) - 63
           res  == result \cup ShlBits(ToBits(byte % 32), shift)
       IN IF (byte \div 32) % 2 = 1 THEN NextLoopBitTest(b, pos + 1, shift + 5, res)
          ELSE [ok |-> TRUE, begin |-> pos + 1, result |-> res, hi |-> pos]

\* the do-while of next(): [ok, begin, result, hi], hi the highest offset read
RECURSIVE NextLoop(_, _, _, _)
NextLoop(b, pos, shift, result) ==
  IF empty(b, pos)
    THEN [ok |-> FALSE, begin |-> pos, result |-> result, hi |-> pos - 1]
  ELSE LET byte == CharValue(ByteAt(b, pos)) - 63
           res  == result \cup ShlBits(ToBits(byte % 32), shift)
       IN IF byte >= 32 THEN NextLoop(b, pos + 1, shift + 5, res)
          ELSE [ok |-> TRUE, begin |-> pos + 1, result |-> res, hi |-> pos]

\* faulty variant: result >> 1 whatever the low bit
UnZigZagNoFlip(result) == FromBits(Sar1(result))

\* previous + (result & 1 ? ~(result >> 1) : (result >> 1))
UnZigZag(result) ==
  IF 0 \in result THEN FromBits(NotBits(Sar1(result))) ELSE FromBits(Sar1(result))

\* next(previous) with the cursor at pos: [ok, begin, value, hi]
next(b, pos, previous) ==
  LET r == NextLoop(b, pos, 0, {})
  IN [ok |-> r.ok, begin |-> r.begin, hi |-> r.hi,
      value |-> IF r.ok THEN AddWrap(previous, UnZigZag(r.result)) ELSE previous]

\* pop() on a decoder in state (pos, la, lo): [ok, begin, lat, lon, hi]
pop(b, pos, la, lo) ==
  LET r1 == next(b, pos, la)
  IN IF ~r1.ok
       THEN [ok |-> FALSE, begin |-> r1.begin, lat |-> la, lon |-> lo, hi |-> r1.hi]
     ELSE LET r2 == next(b, r1.begin, lo)
          IN [ok |-> r2.ok, begin |-> r2.begin, lat |-> r1.value,
              lon |-> r2.value, hi |-> r2.hi]

BadPolyline == "Bad encoded polyline"

----------------------------------------------------------------------------
(* Inputs *)

MaxPoints == 2      \* points in a sequence given to encode()

\* <<lon, lat>> in CoordUnit-ths of a degree
RefPoint    == <<-1224836960, 385800000>>   \* (-122.483696, 38.58)
GooglePoint == <<-1202000000, 385000000>>   \* (-120.2, 38.5)
DeltaPoint  == <<100, 200>>                 \* (0.00001, 0.00002)
PointPool ==
  { <<0, 0>>, DeltaPoint, RefPoint, GooglePoint,
    <<1800000000, 900000000>>,              \* (180, 90)
    <<Half31 - 1, -Half31>>,
    <<Half31 + 100, 0>>,                    \* (107.3741924, 0)
    <<Int32Max, Int32Min>> }

PointSeqs == UNION {[1 .. n -> PointPool] : n \in 0 .. MaxPoints}

Precisions == {10 ^ 5, 10 ^ 6, 10 ^ 7}

NoHist == [pops |-> 0, okPops |-> 0, beginBefore |-> 0, lastPop |-> "none",
           lastEmpty |-> "none", maxRead |-> -1]
NoSample == [pc |-> "idle", d |-> 0, previous |-> 0, bytes |-> <<>>, tail |-> <<>>,
             ok |-> FALSE, value |-> 0, used |-> 0]

InitBuild == charSigned \in BOOLEAN /\ wideShift \in {"mod32", "zero"}

NoEncoder ==
  /\ points = <<>> /\ precision = 10 ^ 6 /\ epc = "idle" /\ idx = 0
  /\ last_lon = 0 /\ last_lat = 0 /\ output = <<>>

NoDecoder ==
  /\ buf = <<>> /\ begin = 0 /\ lat = 0 /\ lon = 0 /\ prec = 1 /\ c = <<>>
  /\ dpc = "idle" /\ err = "" /\ hist = NoHist

----------------------------------------------------------------------------
(* encode() followed by decode() of its output *)

Init ==
  /\ InitBuild
  /\ points \in PointSeqs /\ precision \in Precisions
  /\ epc = "loop" /\ idx = 0 /\ last_lon = 0 /\ last_lat = 0 /\ output = <<>>
  /\ NoDecoder
  /\ smp = NoSample

\* faulty variant: the last point seen is not remembered
EncodePointAbsolute ==
  /\ epc = "loop" /\ idx < Len(points)
  /\ LET p    == points[idx + 1]
         lon_ == ScaleRound(p[1], precision)
         lat_ == ScaleRound(p[2], precision)
     IN output' = output \o serialize(SubWrap(lat_, last_lat))
                         \o serialize(SubWrap(lon_, last_lon))
  /\ idx' = idx + 1
  /\ UNCHANGED <<points, precision, epc, last_lon, last_lat, decVars, buildVars, smp>>

\* one iteration of the for loop of encode()
EncodePoint ==
  /\ epc = "loop" /\ idx < Len(points)
  /\ LET p    == points[idx + 1]
         lon_ == ScaleRound(p[1], precision)
         lat_ == ScaleRound(p[2], precision)
     IN /\ output' = output \o serialize(SubWrap(lat_, last_lat))
                            \o serialize(SubWrap(lon_, last_lon))
        /\ last_lon' = lon_
        /\ last_lat' = lat_
  /\ idx' = idx + 1
  /\ UNCHANGED <<points, precision, epc, decVars, buildVars, smp>>

\* the loop is over: return output
EncodeReturn ==
  /\ epc = "loop" /\ idx = Len(points)
  /\ epc' = "done"
  /\ UNCHANGED <<points, precision, idx, last_lon, last_lat, output, decVars,
                 buildVars, smp>>

\* decode(encoded, 1 / precision): the decoder and the container are constructed
DecodeCall ==
  /\ epc = "done" /\ dpc = "idle"
  /\ buf' = output /\ begin' = 0 /\ lat' = 0 /\ lon' = 0
  /\ prec' = CoordUnit \div precision
  /\ c' = <<>> /\ dpc' = "loop" /\ err' = "" /\ hist' = NoHist
  /\ UNCHANGED <<encVars, buildVars, smp>>

\* hist after a pop() that returned r
AfterPop(r) ==
  [hist EXCEPT !.pops = @ + 1,
               !.okPops = IF r.ok THEN @ + 1 ELSE @,
               !.beginBefore = begin,
               !.lastPop = IF r.ok THEN "ok" ELSE "throw",
               !.maxRead = IF r.hi > @ THEN r.hi ELSE @]

\* one iteration of decode()'s loop: !shape.empty(), then c.emplace_back(shape.pop());
\* an exception leaves decode() and destroys c
DecodeStep ==
  /\ dpc = "loop" /\ ~empty(buf, begin)
  /\ LET r == pop(buf, begin, lat, lon)
     IN /\ begin' = r.begin /\ lat' = r.lat /\ lon' = r.lon
        /\ hist' = AfterPop(r)
        /\ IF r.ok
             THEN /\ c' = Append(c, <<r.lon, r.lat>>)
                  /\ UNCHANGED <<dpc, err>>
           ELSE /\ c' = <<>> /\ dpc' = "error" /\ err' = BadPolyline
  /\ UNCHANGED <<buf, prec, encVars, buildVars, smp>>

\* shape.empty(): return c
DecodeReturn ==
  /\ dpc = "loop" /\ empty(buf, begin)
  /\ dpc' = "returned"
  /\ UNCHANGED <<buf, begin, lat, lon, prec, c, err, hist, encVars, buildVars, smp>>

Next == EncodePoint \/ EncodeReturn \/ DecodeCall \/ DecodeStep \/ DecodeReturn

Spec == Init /\ [][Next]_vars

----------------------------------------------------------------------------
(* decode() of an arbitrary buffer *)

MaxBufLen == 3      \* bytes in an arbitrary buffer

\* '?' '^' end a sample, '_' '~' continue it; DEL and 0xC8 are not bytes encode()
\* writes
ByteAlphabet == {63, 94, 95, 126, 127, 200}

\* outputs of encode(), one cut short, and samples of nine bytes (their last
\* chunks are shifted by 35 and 40)
LongBuffers ==
  { <<95, 112, 126, 105, 70, 126, 112, 115, 124, 85>>,
    <<95, 112, 126, 105, 70, 126, 112, 115, 124>>,
    <<63, 63, 67, 65>>,
    <<126, 126, 126, 126, 126, 126, 126, 126, 64, 63>>,
    <<95, 95, 95, 95, 95, 95, 95, 126, 94, 64, 63, 63>> }

Buffers == UNION {[1 .. n -> ByteAlphabet] : n \in 0 .. MaxBufLen} \cup LongBuffers

InitBuf ==
  /\ InitBuild
  /\ NoEncoder
  /\ buf \in Buffers /\ begin = 0 /\ lat = 0 /\ lon = 0 /\ prec = 10
  /\ c = <<>> /\ dpc = "loop" /\ err = "" /\ hist = NoHist
  /\ smp = NoSample

NextBuf == DecodeStep \/ DecodeReturn

SpecBuf == InitBuf /\ [][NextBuf]_vars

----------------------------------------------------------------------------
(* A caller using a Shape5Decoder directly *)

MaxCalls == 3       \* pop() calls made on one decoder

InitCalls ==
  /\ InitBuild
  /\ NoEncoder
  /\ buf \in Buffers /\ begin = 0 /\ lat = 0 /\ lon = 0 /\ prec = 10
  /\ c = <<>> /\ dpc = "object" /\ err = "" /\ hist = NoHist
  /\ smp = NoSample

\* shape.pop(), whatever empty() says and whatever the last call did
PopCall ==
  /\ dpc = "object" /\ hist.pops < MaxCalls
  /\ LET r == pop(buf, begin, lat, lon)
     IN /\ begin' = r.begin /\ lat' = r.lat /\ lon' = r.lon
        /\ hist' = AfterPop(r)
        /\ err' = IF r.ok THEN err ELSE BadPolyline
  /\ UNCHANGED <<buf, prec, c, dpc, encVars, buildVars, smp>>

\* shape.empty()
EmptyCall ==
  /\ dpc = "object"
  /\ hist' = [hist EXCEPT !.lastEmpty = IF empty(buf, begin) THEN "yes" ELSE "no"]
  /\ UNCHANGED <<buf, begin, lat, lon, prec, c, dpc, err, encVars, buildVars, smp>>

NextCalls == PopCall \/ EmptyCall

SpecCalls == InitCalls /\ [][NextCalls]_vars

----------------------------------------------------------------------------
(* One sample: serialize, then next *)

MaxDelta == 1000000     \* the deltas of the zig-zag claim are -MaxDelta..MaxDelta

DeltaPool ==
  { 0, 1, -1, 15, 16, -16, -17, 511, 512, -512, -513, 16383, 16384, -16384,
    -16385, 524287, 524288, -524288, -524289,
    MaxDelta - 1, MaxDelta, 1 - MaxDelta, -MaxDelta,
    Half31 - 1, -Half31, Half31, Int32Max, Int32Min }

PrevPool ==
  { 0, 1, -1, 3858000, -12248370, Int32Max - MaxDelta, Int32Min + MaxDelta,
    Int32Max, Int32Min }

\* the bytes that follow the sample in the buffer
Tails == { <<>>, <<63>>, <<95, 63>> }

\* one byte of every value, then the tail
RawSamples == {<<b>> \o t : b \in 0 .. 255, t \in Tails}

InitSample ==
  /\ InitBuild
  /\ NoEncoder
  /\ NoDecoder
  /\ \/ \E d \in DeltaPool, previous \in PrevPool, t \in Tails :
          smp = [NoSample EXCEPT !.pc = "start", !.d = d, !.previous = previous,
                                 !.tail = t]
     \/ \E raw \in RawSamples :
          smp = [NoSample EXCEPT !.pc = "raw", !.tail = raw]

\* serialize(d) onto an empty output
SerializeSample ==
  /\ smp.pc = "start"
  /\ smp' = [smp EXCEPT !.pc = "encoded", !.bytes = serialize(smp.d)]
  /\ UNCHANGED <<encVars, decVars, buildVars>>

\* next(previous) on a decoder over the sample's bytes and the tail
NextSample ==
  /\ smp.pc \in {"encoded", "raw"}
  /\ LET r == next(smp.bytes \o smp.tail, 0, smp.previous)
     IN smp' = [smp EXCEPT !.pc = "decoded", !.ok = r.ok, !.value = r.value,
                           !.used = r.begin]
  /\ UNCHANGED <<encVars, decVars, buildVars>>

NextSmp == SerializeSample \/ NextSample

SpecSample == InitSample /\ [][NextSmp]_vars

----------------------------------------------------------------------------
(* Properties of encode() and of decode() on its output *)

\* the scaled, rounded <<lon, lat>> of the k-th input point
Scaled(k) ==
  <<ScaleRound(points[k][1], precision), ScaleRound(points[k][2], precision)>>

\* twice the distance, in coordinate units, between the coordinate n and the
\* decoded value v * q, for v one of the two whole numbers around n / q
TwiceOff(n, v, q) ==
  LET e == (n % q) - ((v - (n \div q)) * q)
  IN IF e < 0 THEN (-2) * e ELSE 2 * e

Decoded == dpc \in {"returned", "error"}

\* C1: decode(encode(points)) returns, in order, one point per input point,
\* holding exactly the input's scaled integers, hence within precision/2 of it
C1_RoundTrip ==
  Decoded =>
    /\ dpc = "returned"
    /\ Len(c) = Len(points)
    /\ \A k \in 1 .. Len(points) :
         /\ c[k] = Scaled(k)
         /\ TwiceOff(points[k][1], c[k][1], prec) <= prec
         /\ TwiceOff(points[k][2], c[k][2], prec) <= prec

Polyline_Google == <<95, 112, 126, 105, 70, 126, 112, 115, 124, 85>>  \* _p~iF~ps|U
Polyline_Ref    == <<95, 100, 110, 106, 70, 98, 114, 113, 106, 86>>   \* _dnjFbrqjV

RefCase == points = <<RefPoint>> /\ precision = 10 ^ 5 /\ epc = "done"

\* C3 as stated: the point (-122.483696, 38.58) at five digits encodes to
\* _p~iF~ps|U
C3_AsStated == RefCase => output = Polyline_Google

\* C3 amended: the point (-122.483696, 38.58) at five digits encodes to
\* _dnjFbrqjV and decodes to lat 3858000, lon -12248370, within 1e-5 of the
\* input; _p~iF~ps|U is the encoding of (-120.2, 38.5)
C3_Reference ==
  /\ RefCase => output = Polyline_Ref
  /\ (RefCase /\ Decoded) =>
        /\ dpc = "returned"
        /\ c = << <<-12248370, 3858000>> >>
        /\ TwiceOff(RefPoint[1], c[1][1], prec) <= 2 * (CoordUnit \div (10 ^ 5))
        /\ TwiceOff(RefPoint[2], c[1][2], prec) <= 2 * (CoordUnit \div (10 ^ 5))
  /\ (points = <<GooglePoint>> /\ precision = 10 ^ 5 /\ epc = "done")
        => output = Polyline_Google

C3_Witness == RefCase /\ dpc = "returned" /\ Len(c) = 1

\* the output the claim C4 describes after k points: per point, the bytes of the
\* latitude delta then those of the longitude delta, the deltas taken (as ints)
\* against the previous point, against 0 for the first
RECURSIVE DeltaStream(_)
DeltaStream(k) ==
  IF k = 0 THEN <<>>
  ELSE LET cur  == Scaled(k)
           prev == IF k = 1 THEN <<0, 0>> ELSE Scaled(k - 1)
       IN DeltaStream(k - 1) \o serialize(SubWrap(cur[2], prev[2]))
                             \o serialize(SubWrap(cur[1], prev[1]))

DeltaCase == points = << <<0, 0>>, DeltaPoint >> /\ precision = 10 ^ 5 /\ epc = "done"

\* C4: the output is the concatenation over the points, in order, of the latitude
\* delta then the longitude delta; [(0,0),(0.00001,0.00002)] at 1e5 ends with the
\* samples 2 (latitude) and 1 (longitude)
C4_DeltaStream ==
  /\ epc \in {"loop", "done"} => output = DeltaStream(idx)
  /\ DeltaCase => output = serialize(0) \o serialize(0) \o serialize(2) \o serialize(1)
  /\ DeltaCase => output = <<63, 63, 67, 65>>

C4_Witness == DeltaCase /\ Len(output) = 4

IsFinalByte(b) == b \in 63 .. 94
IsContinuationByte(b) == b \in 95 .. 126

\* C5: every byte encode() emits is in 63..126, and the 63..94 bytes are exactly
\* the last bytes of the samples, two per point
C5_Printable ==
  epc \in {"loop", "done"} =>
    /\ \A i \in 1 .. Len(output) : IsFinalByte(output[i]) \/ IsContinuationByte(output[i])
    /\ Cardinality({i \in 1 .. Len(output) : IsFinalByte(output[i])}) = 2 * idx
    /\ (output # <<>> => IsFinalByte(output[Len(output)]))

\* C7: encode() of no points returns no bytes, and decode() of no bytes returns
\* an empty container without a pop() and without an error
C7_Empty ==
  /\ (points = <<>> /\ epc = "done") => output = <<>>
  /\ (buf = <<>> /\ dpc \in {"loop", "returned", "error"}) =>
        /\ dpc # "error" /\ err = ""
        /\ c = <<>> /\ hist.pops = 0

C7_Witness == points = <<>> /\ output = <<>> /\ buf = <<>> /\ dpc = "returned"

----------------------------------------------------------------------------
(* Properties of decode() and Shape5Decoder on arbitrary buffers *)

\* a byte that ends a sample: its char value minus 63 is below 0x20
Terminating(b) == CharValue(b) - 63 < 32

\* the number of terminating bytes of b at offsets pos and beyond
TermsFrom(b, pos) == Cardinality({i \in (pos + 1) .. Len(b) : Terminating(b[i])})

\* C2: a pop() for which the input ends before the terminating byte of one of
\* its two samples throws "Bad encoded polyline" there, and decode() hands back
\* no container and no point
C2_Malformed ==
  [][ (dpc = "loop" /\ ~empty(buf, begin) /\ TermsFrom(buf, begin) < 2)
        => (dpc' = "error" /\ err' = BadPolyline /\ c' = <<>>
            /\ begin' = Len(buf) /\ hist'.lastPop = "throw") ]_vars

\* a buffer of one continuation-flagged byte has been refused
C2_Witness ==
  /\ Len(buf) = 1 /\ ~Terminating(buf[1])
  /\ dpc = "error" /\ err = BadPolyline /\ c = <<>>

Accepted(b) ==
  \/ b = <<>>
  \/ Terminating(b[Len(b)]) /\ TermsFrom(b, 0) % 2 = 0

\* C10: decode() returns exactly for the empty buffer and for the buffers that
\* end in a terminating byte and hold an even number of them, with the cursor at
\* the end and one point per two terminating bytes; it throws for all others
C10_Acceptance ==
  /\ dpc = "returned" =>
        /\ Accepted(buf) /\ err = ""
        /\ begin = Len(buf)
        /\ 2 * Len(c) = TermsFrom(buf, 0)
  /\ dpc = "error" => ~Accepted(buf) /\ err = BadPolyline /\ c = <<>>
  /\ dpc = "loop" => 2 * Len(c) = TermsFrom(buf, 0) - TermsFrom(buf, begin)

\* a buffer that is one complete latitude sample and nothing else has been refused
C10_Witness ==
  /\ Len(buf) = 1 /\ Terminating(buf[1]) /\ dpc = "error"

\* C9: the cursor never moves back and never passes the end, no byte at or
\* beyond the end is read, a pop() that returns has moved the cursor by two
\* bytes or more, and no more than length / 2 pops return
C9_CursorSafety ==
  /\ hist.beginBefore <= begin
  /\ begin <= Len(buf)
  /\ hist.maxRead < Len(buf)
  /\ hist.maxRead < begin
  /\ hist.lastPop = "ok" => begin >= hist.beginBefore + 2
  /\ hist.lastPop = "throw" => begin = Len(buf)
  /\ 2 * hist.okPops <= begin

\* pop() has returned, then thrown, then been called again on the empty decoder
C9_Witness ==
  /\ dpc = "object" /\ hist.okPops >= 1 /\ hist.pops >= hist.okPops + 2
  /\ hist.lastPop = "throw" /\ hist.beginBefore = Len(buf) /\ hist.lastEmpty = "yes"

----------------------------------------------------------------------------
(* Properties of one sample *)

InDeltaRange(d) == -MaxDelta <= d /\ d <= MaxDelta

\* previous + d is an int
SumFits(previous, d) ==
  IF d >= 0 THEN previous <= Int32Max - d ELSE previous >= Int32Min - d

Roundtripped == smp.pc = "decoded" /\ smp.bytes # <<>>

\* C6 as stated: for d in -MaxDelta..MaxDelta and any previous value, next reads
\* back previous + d from the bytes of serialize(d), and exactly those bytes
C6_AsStated ==
  (Roundtripped /\ InDeltaRange(smp.d)) =>
    /\ smp.ok
    /\ SumFits(smp.previous, smp.d) /\ smp.value = smp.previous + smp.d
    /\ smp.used = Len(smp.bytes)

\* C6 amended: the same for the previous values for which previous + d is within
\* the 32-bit signed range
C6_ZigZag ==
  (Roundtripped /\ InDeltaRange(smp.d) /\ SumFits(smp.previous, smp.d)) =>
    /\ smp.ok
    /\ smp.value = smp.previous + smp.d
    /\ smp.used = Len(smp.bytes)

\* a negative delta of three bytes, followed by more bytes, has been read back
C6_Witness ==
  /\ Roundtripped /\ smp.d = -MaxDelta /\ smp.previous = 3858000
  /\ smp.tail # <<>> /\ smp.ok /\ smp.value = 3858000 - MaxDelta

\* bit 0x20 of the int v
Bit5(v) == (v \div 32) % 2 = 1

\* the number of bytes the rule of C8 reads from b: up to the first byte whose
\* value minus 63 has bit 0x20 clear, all of them when there is none
RECURSIVE RuleUse(_, _)
RuleUse(b, pos) ==
  IF pos = Len(b) THEN pos
  ELSE IF Bit5(CharValue(b[pos + 1]) - 63) THEN RuleUse(b, pos + 1)
  ELSE pos + 1

\* C8: for every byte value, next goes on to the following byte exactly when the
\* byte's value minus 63 has bit 0x20 set, and stops at the first that has not
C8_Continuation ==
  smp.pc = "decoded" => smp.used = RuleUse(smp.bytes \o smp.tail, 0)

====
